---- MODULE Spec2Model ----
(***************************************************************************)
(* Model of scripts/staging/tcp-vsock-forwarder.py: a TCP listener whose   *)
(* accept loop dials an AF_VSOCK endpoint for every accepted connection    *)
(* and starts two daemon threads running forward(src, dst, direction),     *)
(* one per direction.                                                      *)
(*                                                                         *)
(* The program state is the main thread's position (mainPc), the listener  *)
(* socket, and per accepted connection i the two Python socket objects     *)
(* (socks[i].client_sock, socks[i].vsock_sock) and the two threads         *)
(* (thr[i].t1 = forward(client_sock, vsock_sock, "TCP->VSOCK"),            *)
(*  thr[i].t2 = forward(vsock_sock, client_sock, "VSOCK->TCP")).           *)
(* The environment is the two endpoints of every connection: what they     *)
(* have written (sent), what is still unread in the relay's receive queue  *)
(* (inq), whether they have finished sending (eof), and what the relay     *)
(* has delivered to them (rcvd).                                           *)
(***************************************************************************)
EXTENDS Integers, Sequences, FiniteSets, TLC

\* ------------------------------------------------------------- bounds
\* Client connections made to the listener during a run.
MaxConns == 2
\* Things the endpoints and the network do to connections during a run: a
\* byte written, an end of stream, a failed recv or sendall.
MaxEvents == 3

\* A run is bounded by its load: many connections to which little happens,
\* or one connection to which more happens.
Loads == {[conns |-> MaxConns, events |-> 1], [conns |-> 1, events |-> MaxEvents]}
\* The load of the runs whose command line is not the usual one.
LightLoad == [conns |-> 1, events |-> 0]

\* ------------------------------------------------------------- constants
\* server_sock.listen(10)
BACKLOG == 10
\* src.recv(4096)
BUFSIZE == 4096
\* return 2  # VMADDR_CID_HYPERVISOR as fallback
VMADDR_CID_HYPERVISOR == 2
\* exitCode while the process is running.
NoExit == 0 - 1

Sess == 1..MaxConns
Threads == {"t1", "t2"}
Sides == {"client_sock", "vsock_sock"}
\* Byte values an endpoint writes.
Bytes == {0, 1}

\* ------------------------------------------------------------- int(sys.argv[k])
\* A command-line argument is a sequence of characters.
Digits == {"0", "1", "2", "3", "4", "5", "6", "7", "8", "9"}

DigitVal(c) ==
    CASE c = "0" -> 0 [] c = "1" -> 1 [] c = "2" -> 2 [] c = "3" -> 3
      [] c = "4" -> 4 [] c = "5" -> 5 [] c = "6" -> 6 [] c = "7" -> 7
      [] c = "8" -> 8 [] c = "9" -> 9

IsDigits(s) == Len(s) > 0 /\ \A k \in 1..Len(s) : s[k] \in Digits

RECURSIVE DigitsVal(_)
DigitsVal(s) ==
    IF s = <<>> THEN 0
    ELSE 10 * DigitsVal(SubSeq(s, 1, Len(s) - 1)) + DigitVal(s[Len(s)])

\* int(s): an optional sign and decimal digits, ValueError otherwise.
PyInt(s) ==
    IF IsDigits(s) THEN [ok |-> TRUE, val |-> DigitsVal(s)]
    ELSE IF Len(s) > 1 /\ s[1] = "-" /\ IsDigits(Tail(s))
         THEN [ok |-> TRUE, val |-> 0 - DigitsVal(Tail(s))]
    ELSE IF Len(s) > 1 /\ s[1] = "+" /\ IsDigits(Tail(s))
         THEN [ok |-> TRUE, val |-> DigitsVal(Tail(s))]
    ELSE [ok |-> FALSE, val |-> 0]

\* The command lines tried (sys.argv[1:]).
A3000 == <<"3", "0", "0", "0">>
A17 == <<"1", "7">>
A0 == <<"0">>
A70000 == <<"7", "0", "0", "0", "0">>
ANeg == <<"-", "1">>
AWord == <<"a", "b", "c">>

Argvs ==
    { <<>>,
      <<A3000, A17>>,
      <<A3000, A17, A3000, A17>>,
      <<A3000, A17, A3000>>,
      <<A0, A17, A3000>>,
      <<A70000, A17, A3000>>,
      <<ANeg, A17, A3000>>,
      <<AWord, A17, A3000>>,
      <<A3000, A17, AWord>> }

\* ------------------------------------------------------------- state
VARIABLES
    argv,         \* sys.argv[1:]
    mainPc,       \* position of the main thread
    exitCode,     \* exit status of the process, NoExit while it runs
    args,         \* local_port, enclave_cid, enclave_vsock_port after int()
    local_cid,    \* what get_local_cid() returned (0 before the call)
    server_sock,  \* "none", "created", "listening", "closed"
    log,          \* lines printed, as <<message, connection, thread>>
    nconn,        \* clients that have connected to the listener
    nacc,         \* connections accept() has returned
    socks,        \* socks[i].client_sock, socks[i].vsock_sock
    thr,          \* thr[i][t] = [pc, data] of thread t of connection i
    held,         \* held[i][s]: a recv() blocked in the kernel keeps the
                  \* connection of the closed socket object s open
    inq,          \* inq[i][s]: bytes the endpoint wrote, not yet recv()ed
    eof,          \* eof[i][s]: the endpoint of s has finished sending
    sent,         \* sent[i][s]: every byte the endpoint of s wrote
    rcvd,         \* rcvd[i][s]: bytes sendall() delivered to the endpoint
    ioerr,        \* ioerr[i]: the network failed a recv/sendall of i
    uncaught,     \* threads ended by an exception nothing caught
    load          \* the load of this run

vars == <<argv, mainPc, exitCode, args, local_cid, server_sock, log, nconn,
          nacc, socks, thr, held, inq, eof, sent, rcvd, ioerr, uncaught, load>>

procVars == <<argv, args, local_cid, load>>
envVars == <<inq, eof, sent, rcvd, ioerr>>

LoopPcs == {"accept", "socket", "connect", "start_t1", "start_t2"}

Init ==
    /\ argv \in Argvs
    /\ load \in IF argv = <<A3000, A17, A3000>> THEN Loads ELSE {LightLoad}
    /\ mainPc = "start"
    /\ exitCode = NoExit
    /\ args = [local_port |-> 0, enclave_cid |-> 0, enclave_vsock_port |-> 0]
    /\ local_cid = 0
    /\ server_sock = "none"
    /\ log = {}
    /\ nconn = 0
    /\ nacc = 0
    /\ socks = [i \in Sess |-> [client_sock |-> "none", vsock_sock |-> "none"]]
    /\ thr = [i \in Sess |-> [t \in Threads |-> [pc |-> "unstarted", data |-> <<>>]]]
    /\ held = [i \in Sess |-> [s \in Sides |-> FALSE]]
    /\ inq = [i \in Sess |-> [s \in Sides |-> <<>>]]
    /\ eof = [i \in Sess |-> [s \in Sides |-> FALSE]]
    /\ sent = [i \in Sess |-> [s \in Sides |-> <<>>]]
    /\ rcvd = [i \in Sess |-> [s \in Sides |-> <<>>]]
    /\ ioerr = [i \in Sess |-> FALSE]
    /\ uncaught = {}

\* print(...) by the main thread.
Say(msg) == log' = log \cup {<<msg, 0, "main">>}

\* ------------------------------------------------------------- __main__
\* if len(sys.argv) != 4: usage, sys.exit(1)
CheckArgs ==
    /\ mainPc = "start"
    /\ IF Len(argv) + 1 # 4
       THEN /\ Say("Usage")
            /\ exitCode' = 1
            /\ mainPc' = "exited"
       ELSE /\ mainPc' = "parse"
            /\ UNCHANGED <<log, exitCode>>
    /\ UNCHANGED <<procVars, server_sock, nconn, nacc, socks, thr, held,
                   envVars, uncaught>>

\* local_port = int(sys.argv[1]) ...: a ValueError is caught by nothing, the
\* interpreter prints the traceback and exits with status 1.
ParseArgs ==
    /\ mainPc = "parse"
    /\ LET p1 == PyInt(argv[1])
           p2 == PyInt(argv[2])
           p3 == PyInt(argv[3])
       IN IF p1.ok /\ p2.ok /\ p3.ok
          THEN /\ args' = [local_port |-> p1.val, enclave_cid |-> p2.val,
                           enclave_vsock_port |-> p3.val]
               /\ mainPc' = "cid"
               /\ UNCHANGED <<log, exitCode>>
          ELSE /\ Say("Traceback: ValueError")
               /\ exitCode' = 1
               /\ mainPc' = "exited"
               /\ UNCHANGED args
    /\ UNCHANGED <<argv, load, local_cid, server_sock, nconn, nacc, socks, thr,
                   held, envVars, uncaught>>

\* Identifiers the kernel may report for the host.
LocalCids == {3}

\* Mutant of get_local_cid: a failure of the query is not caught.
get_local_cid_propagates(ok, cid) ==
    IF ok THEN [ret |-> cid, printed |-> FALSE, raised |-> FALSE]
    ELSE [ret |-> 0, printed |-> FALSE, raised |-> TRUE]

\* get_local_cid(): the identifier the query returned, or on any exception
\* (except Exception) the message and the fallback; nothing is raised.
get_local_cid(ok, cid) ==
    IF ok THEN [ret |-> cid, printed |-> FALSE, raised |-> FALSE]
    ELSE [ret |-> VMADDR_CID_HYPERVISOR, printed |-> TRUE, raised |-> FALSE]

\* print(f"Local CID: {get_local_cid()}"), then forward_tcp_to_vsock(...).
\* An exception out of get_local_cid would be caught by nothing and end the
\* process with a traceback.
GetLocalCid ==
    /\ mainPc = "cid"
    /\ \E ok \in BOOLEAN, cid \in LocalCids :
         LET r == get_local_cid(ok, cid)
         IN IF r.raised
            THEN /\ Say("Traceback: get_local_cid")
                 /\ exitCode' = 1
                 /\ mainPc' = "exited"
                 /\ UNCHANGED local_cid
            ELSE /\ local_cid' = r.ret
                 /\ IF r.printed THEN Say("Error getting local CID")
                                 ELSE UNCHANGED log
                 /\ mainPc' = "bind"
                 /\ UNCHANGED exitCode
    /\ UNCHANGED <<argv, load, args, server_sock, nconn, nacc, socks,
                   thr, held, envVars, uncaught>>

\* ------------------------------------------------------------- sockets
Src(t) == IF t = "t1" THEN "client_sock" ELSE "vsock_sock"
Dst(t) == IF t = "t1" THEN "vsock_sock" ELSE "client_sock"
Min(a, b) == IF a < b THEN a ELSE b

\* The connection of socket object s is established and the relay has not
\* released it: the object is open, or a recv() that was blocked in the
\* kernel when the object was closed still holds the open file description.
ConnUp(i, s) == socks[i][s] = "connected" \/ held[i][s]

\* A thread of connection i is inside recv() on socket s.
PendingRecv(i, s) == \E t \in Threads : Src(t) = s /\ thr[i][t].pc = "recv"

\* Mutant of CloseRaises: closing a socket that is already closed raises.
CloseRaisesTwice(st) == st = "closed"

\* sock.close() raises: closing a socket object twice is a no-op in Python.
CloseRaises(st) == FALSE

\* sock.close(): the object is closed, whatever it was. close() does not
\* shut the connection down: when another thread is blocked in recv() on it,
\* the platform either fails that recv() or (Linux) lets it go on and keeps
\* the connection open until it returns.
Close(i, s) ==
    /\ socks' = [socks EXCEPT ![i][s] = "closed"]
    /\ IF socks[i][s] = "connected" /\ PendingRecv(i, s)
       THEN \E h \in BOOLEAN : held' = [held EXCEPT ![i][s] = h]
       ELSE UNCHANGED held

RECURSIVE SumLen(_, _)
SumLen(f, S) ==
    IF S = {} THEN 0
    ELSE LET x == CHOOSE y \in S : TRUE
         IN Len(f[x[1]][x[2]]) + SumLen(f, S \ {x})

\* What the endpoints and the network have done so far.
Events ==
    SumLen(sent, Sess \X Sides)
    + Cardinality({x \in Sess \X Sides : eof[x[1]][x[2]]})
    + Cardinality({i \in Sess : ioerr[i]})

\* ------------------------------------------------------------- forward_tcp_to_vsock
\* server_sock = socket.socket(...): outside the try, an error ends the
\* process with a traceback.
ServerSocket ==
    /\ mainPc = "bind"
    /\ server_sock = "none"
    /\ \E ok \in BOOLEAN :
         IF ok THEN /\ server_sock' = "created"
                    /\ UNCHANGED <<mainPc, exitCode, log>>
         ELSE /\ Say("Traceback: OSError")
              /\ exitCode' = 1
              /\ mainPc' = "exited"
              /\ UNCHANGED server_sock
    /\ UNCHANGED <<procVars, nconn, nacc, socks, thr, held, envVars, uncaught>>

\* bind() takes the port: OverflowError unless it is 0..65535.
PortInRange(p) == p >= 0 /\ p <= 65535

\* server_sock.bind(...); server_sock.listen(10)
BindOk ==
    /\ mainPc = "bind"
    /\ server_sock = "created"
    /\ PortInRange(args.local_port)
    /\ server_sock' = "listening"
    /\ Say("Listening")
    /\ mainPc' = "accept"
    /\ UNCHANGED <<procVars, exitCode, nconn, nacc, socks, thr, held, envVars,
                   uncaught>>

\* bind() or listen() raises (port out of range, in use, not permitted):
\* except Exception prints "Server error", finally closes server_sock, the
\* function returns and the script ends.
BindFail ==
    /\ mainPc = "bind"
    /\ server_sock = "created"
    /\ Say("Server error")
    /\ server_sock' = "closed"
    /\ exitCode' = 0
    /\ mainPc' = "exited"
    /\ UNCHANGED <<procVars, nconn, nacc, socks, thr, held, envVars, uncaught>>

\* A client connects to the listening port and waits in the backlog.
ClientConnect ==
    /\ server_sock = "listening"
    /\ nconn < load.conns
    /\ nconn - nacc < BACKLOG
    /\ nconn' = nconn + 1
    /\ UNCHANGED <<procVars, mainPc, exitCode, server_sock, log, nacc, socks,
                   thr, held, envVars, uncaught>>

\* client_sock, addr = server_sock.accept()
AcceptOk ==
    /\ mainPc = "accept"
    /\ server_sock = "listening"
    /\ nacc < nconn
    /\ nacc' = nacc + 1
    /\ socks' = [socks EXCEPT ![nacc + 1].client_sock = "connected"]
    /\ log' = log \cup {<<"Connection from", nacc + 1, "main">>}
    /\ mainPc' = "socket"
    /\ UNCHANGED <<procVars, exitCode, server_sock, nconn, thr, held, envVars,
                   uncaught>>

\* Mutant of AcceptErr: the handler prints and leaves the loop, so the
\* finally closes the listener and the script ends.
AcceptErrLeavesLoop ==
    /\ mainPc = "accept"
    /\ server_sock = "listening"
    /\ Say("Accept error")
    /\ server_sock' = "closed"
    /\ exitCode' = 0
    /\ mainPc' = "exited"
    /\ UNCHANGED <<procVars, nconn, nacc, socks, thr, held, envVars, uncaught>>

\* accept() raises: except Exception prints "Accept error" and the loop
\* goes round.
AcceptErr ==
    /\ mainPc = "accept"
    /\ server_sock = "listening"
    /\ Say("Accept error")
    /\ UNCHANGED <<procVars, mainPc, exitCode, server_sock, nconn, nacc, socks,
                   thr, held, envVars, uncaught>>

\* vsock_sock = socket.socket(AF_VSOCK, ...)
VsockSocketOk ==
    /\ mainPc = "socket"
    /\ socks' = [socks EXCEPT ![nacc].vsock_sock = "created"]
    /\ mainPc' = "connect"
    /\ UNCHANGED <<procVars, exitCode, server_sock, log, nconn, nacc, thr, held,
                   envVars, uncaught>>

\* socket.socket(AF_VSOCK, ...) raises: it stands outside the inner try, so
\* the handler of the accept try prints "Accept error"; client_sock is not
\* closed.
VsockSocketFail ==
    /\ mainPc = "socket"
    /\ log' = log \cup {<<"Accept error", nacc, "main">>}
    /\ mainPc' = "accept"
    /\ UNCHANGED <<procVars, exitCode, server_sock, nconn, nacc, socks, thr,
                   held, envVars, uncaught>>

\* vsock_sock.connect((enclave_cid, enclave_vsock_port)) returns
ConnectOk ==
    /\ mainPc = "connect"
    /\ socks' = [socks EXCEPT ![nacc].vsock_sock = "connected"]
    /\ log' = log \cup {<<"Connected to VSOCK", nacc, "main">>}
    /\ mainPc' = "start_t1"
    /\ UNCHANGED <<procVars, exitCode, server_sock, nconn, nacc, thr, held,
                   envVars, uncaught>>

\* Mutant of ConnectFail: the handler prints and does not close client_sock.
ConnectFailNoClose ==
    /\ mainPc = "connect"
    /\ log' = log \cup {<<"VSOCK connect error", nacc, "main">>}
    /\ mainPc' = "accept"
    /\ UNCHANGED <<procVars, exitCode, server_sock, nconn, nacc, socks, thr,
                   held, envVars, uncaught>>

\* Mutant of ConnectFail: the handler prints and falls through to the code
\* that starts the two threads.
ConnectFailStartsRelay ==
    /\ mainPc = "connect"
    /\ log' = log \cup {<<"VSOCK connect error", nacc, "main">>}
    /\ mainPc' = "start_t1"
    /\ UNCHANGED <<procVars, exitCode, server_sock, nconn, nacc, socks, thr,
                   held, envVars, uncaught>>

\* connect() raises: print "VSOCK connect error", client_sock.close()
ConnectFail ==
    /\ mainPc = "connect"
    /\ log' = log \cup {<<"VSOCK connect error", nacc, "main">>}
    /\ Close(nacc, "client_sock")
    /\ mainPc' = "accept"
    /\ UNCHANGED <<procVars, exitCode, server_sock, nconn, nacc, thr, envVars,
                   uncaught>>

\* t1.start() / t2.start()
StartOk(t) ==
    /\ mainPc = "start_" \o t
    /\ thr' = [thr EXCEPT ![nacc][t].pc = "recv"]
    /\ mainPc' = IF t = "t1" THEN "start_t2" ELSE "accept"
    /\ UNCHANGED <<procVars, exitCode, server_sock, log, nconn, nacc, socks,
                   held, envVars, uncaught>>

\* start() raises RuntimeError (no thread can be created): the handler of
\* the inner try prints "VSOCK connect error" and closes client_sock. A
\* thread already started keeps running.
StartFail(t) ==
    /\ mainPc = "start_" \o t
    /\ log' = log \cup {<<"VSOCK connect error", nacc, "main">>}
    /\ Close(nacc, "client_sock")
    /\ mainPc' = "accept"
    /\ UNCHANGED <<procVars, exitCode, server_sock, nconn, nacc, thr, envVars,
                   uncaught>>

\* ------------------------------------------------------------- the endpoints
\* The endpoint of socket s of connection i is connected to the relay: the
\* client from its connect on (also while it waits in the backlog), the
\* enclave from the dial on, each until the relay releases the connection.
EndUp(i, s) ==
    \/ ConnUp(i, s)
    \/ s = "client_sock" /\ i > nacc /\ i <= nconn

\* The endpoint writes one byte.
EndpointWrite(i, s, b) ==
    /\ EndUp(i, s)
    /\ ~eof[i][s]
    /\ Events < load.events
    /\ inq' = [inq EXCEPT ![i][s] = Append(@, b)]
    /\ sent' = [sent EXCEPT ![i][s] = Append(@, b)]
    /\ UNCHANGED <<procVars, mainPc, exitCode, server_sock, log, nconn, nacc,
                   socks, thr, held, eof, rcvd, ioerr, uncaught, load>>

\* The endpoint finishes sending (close, or shutdown of its sending side).
EndpointEof(i, s) ==
    /\ EndUp(i, s)
    /\ ~eof[i][s]
    /\ Events < load.events
    /\ eof' = [eof EXCEPT ![i][s] = TRUE]
    /\ UNCHANGED <<procVars, mainPc, exitCode, server_sock, log, nconn, nacc,
                   socks, thr, held, inq, sent, rcvd, ioerr, uncaught, load>>

\* ------------------------------------------------------------- forward(src, dst, direction)
\* src.recv(4096): at most 4096 of the bytes waiting, from the front.
recv(q, bufsize) ==
    [data |-> SubSeq(q, 1, Min(bufsize, Len(q))),
     rest |-> SubSeq(q, Min(bufsize, Len(q)) + 1, Len(q))]

\* Mutant of ExceptForward: the error of a copy loop reaches the accept
\* loop's outer handler, which closes the listener and ends the script.
ExceptForwardReachesListener(i, t) ==
    /\ log' = log \cup {<<"Forward error", i, t>>}
    /\ server_sock' = "closed"
    /\ exitCode' = 0
    /\ mainPc' = "exited"

\* Mutant of ExceptForward: the handler swallows the exception and prints
\* nothing.
ExceptForwardSilent(i, t) ==
    UNCHANGED <<log, mainPc, exitCode, server_sock>>

\* except Exception as e: print(f"Forward {direction} error: {e}"). The
\* exception ends here: nothing of the main thread is touched.
ExceptForward(i, t) ==
    /\ log' = log \cup {<<"Forward error", i, t>>}
    /\ UNCHANGED <<mainPc, exitCode, server_sock>>

\* data = src.recv(4096) returns bytes; the loop goes on to sendall.
RecvData(i, t) ==
    /\ thr[i][t].pc = "recv"
    /\ ConnUp(i, Src(t))
    /\ inq[i][Src(t)] # <<>>
    /\ LET r == recv(inq[i][Src(t)], BUFSIZE)
       IN /\ thr' = [thr EXCEPT ![i][t] = [pc |-> "sendall", data |-> r.data]]
          /\ inq' = [inq EXCEPT ![i][Src(t)] = r.rest]
    /\ held' = [held EXCEPT ![i][Src(t)] = FALSE]
    /\ UNCHANGED <<procVars, mainPc, exitCode, server_sock, log, nconn, nacc,
                   socks, eof, sent, rcvd, ioerr, uncaught, load>>

\* Mutant of RecvEof: a recv that has waited with nothing to read returns
\* b'' (an idle timeout taken for the end of the stream).
RecvEofWhenIdle(i, t) ==
    /\ thr[i][t].pc = "recv"
    /\ ConnUp(i, Src(t))
    /\ inq[i][Src(t)] = <<>>
    /\ thr' = [thr EXCEPT ![i][t].pc = "close_src"]
    /\ held' = [held EXCEPT ![i][Src(t)] = FALSE]
    /\ UNCHANGED <<procVars, mainPc, exitCode, server_sock, log, nconn, nacc,
                   socks, envVars, uncaught>>

\* recv returns b'': if not data: break
RecvEof(i, t) ==
    /\ thr[i][t].pc = "recv"
    /\ ConnUp(i, Src(t))
    /\ inq[i][Src(t)] = <<>>
    /\ eof[i][Src(t)]
    /\ thr' = [thr EXCEPT ![i][t].pc = "close_src"]
    /\ held' = [held EXCEPT ![i][Src(t)] = FALSE]
    /\ UNCHANGED <<procVars, mainPc, exitCode, server_sock, log, nconn, nacc,
                   socks, envVars, uncaught>>

\* recv raises because the connection failed (reset, timeout).
RecvError(i, t) ==
    /\ thr[i][t].pc = "recv"
    /\ ConnUp(i, Src(t))
    /\ ioerr[i] \/ Events < load.events
    /\ ExceptForward(i, t)
    /\ ioerr' = [ioerr EXCEPT ![i] = TRUE]
    /\ thr' = [thr EXCEPT ![i][t].pc = "close_src"]
    /\ held' = [held EXCEPT ![i][Src(t)] = FALSE]
    /\ UNCHANGED <<procVars, nconn, nacc, socks, inq, eof, sent, rcvd, uncaught>>

\* recv raises because the socket object is closed (bad file descriptor)
\* and no recv of this thread is going on in the kernel.
RecvClosed(i, t) ==
    /\ thr[i][t].pc = "recv"
    /\ socks[i][Src(t)] = "closed"
    /\ ~held[i][Src(t)]
    /\ ExceptForward(i, t)
    /\ thr' = [thr EXCEPT ![i][t].pc = "close_src"]
    /\ UNCHANGED <<procVars, nconn, nacc, socks, held, envVars, uncaught>>

\* Mutant of SendOk: forward takes its sockets from the enclosing loop's
\* variables, which by now name the connection accepted last.
SendOkLateBinding(i, t) ==
    /\ thr[i][t].pc = "sendall"
    /\ socks[nacc][Dst(t)] = "connected"
    /\ rcvd' = [rcvd EXCEPT ![nacc][Dst(t)] = @ \o thr[i][t].data]
    /\ thr' = [thr EXCEPT ![i][t] = [pc |-> "recv", data |-> <<>>]]
    /\ UNCHANGED <<procVars, mainPc, exitCode, server_sock, log, nconn, nacc,
                   socks, held, inq, eof, sent, ioerr, uncaught, load>>

\* dst.sendall(data) writes every byte.
SendOk(i, t) ==
    /\ thr[i][t].pc = "sendall"
    /\ socks[i][Dst(t)] = "connected"
    /\ rcvd' = [rcvd EXCEPT ![i][Dst(t)] = @ \o thr[i][t].data]
    /\ thr' = [thr EXCEPT ![i][t] = [pc |-> "recv", data |-> <<>>]]
    /\ UNCHANGED <<procVars, mainPc, exitCode, server_sock, log, nconn, nacc,
                   socks, held, inq, eof, sent, ioerr, uncaught, load>>

\* Mutant of SendError: the handler reports the error and the thread tries
\* the same chunk again.
SendErrorRetries(i, t) ==
    /\ thr[i][t].pc = "sendall"
    /\ socks[i][Dst(t)] = "connected"
    /\ ioerr[i] \/ Events < load.events
    /\ \E k \in 0..(Len(thr[i][t].data) - 1) :
         rcvd' = [rcvd EXCEPT ![i][Dst(t)] = @ \o SubSeq(thr[i][t].data, 1, k)]
    /\ ExceptForward(i, t)
    /\ ioerr' = [ioerr EXCEPT ![i] = TRUE]
    /\ UNCHANGED <<procVars, nconn, nacc, socks, thr, held, inq, eof, sent,
                   uncaught>>

\* sendall raises after k of the bytes were written; the rest is dropped.
SendError(i, t) ==
    /\ thr[i][t].pc = "sendall"
    /\ socks[i][Dst(t)] = "connected"
    /\ ioerr[i] \/ Events < load.events
    /\ \E k \in 0..(Len(thr[i][t].data) - 1) :
         rcvd' = [rcvd EXCEPT ![i][Dst(t)] = @ \o SubSeq(thr[i][t].data, 1, k)]
    /\ ExceptForward(i, t)
    /\ ioerr' = [ioerr EXCEPT ![i] = TRUE]
    /\ thr' = [thr EXCEPT ![i][t] = [pc |-> "close_src", data |-> <<>>]]
    /\ UNCHANGED <<procVars, nconn, nacc, socks, held, inq, eof, sent, uncaught>>

\* sendall raises because the socket object is closed.
SendClosed(i, t) ==
    /\ thr[i][t].pc = "sendall"
    /\ socks[i][Dst(t)] = "closed"
    /\ ExceptForward(i, t)
    /\ thr' = [thr EXCEPT ![i][t] = [pc |-> "close_src", data |-> <<>>]]
    /\ UNCHANGED <<procVars, nconn, nacc, socks, held, envVars, uncaught>>

\* Mutant of FinallyClose: the try/finally stands inside the while loop, so
\* after the two closes the thread goes back to recv.
FinallyCloseInsideLoop(i, t, s, next) ==
    /\ Close(i, s)
    /\ thr' = [thr EXCEPT ![i][t].pc = IF next = "done" THEN "recv" ELSE next]
    /\ UNCHANGED uncaught

\* finally: one close() of the two. An exception raised in the finally
\* block leaves the thread with the rest of the block not run.
FinallyClose(i, t, s, next) ==
    IF CloseRaises(socks[i][s])
    THEN /\ thr' = [thr EXCEPT ![i][t].pc = "done"]
         /\ uncaught' = uncaught \cup {<<i, t>>}
         /\ UNCHANGED <<socks, held>>
    ELSE /\ Close(i, s)
         /\ thr' = [thr EXCEPT ![i][t].pc = next]
         /\ UNCHANGED uncaught

\* finally: src.close()
CloseSrc(i, t) ==
    /\ thr[i][t].pc = "close_src"
    /\ FinallyClose(i, t, Src(t), "close_dst")
    /\ UNCHANGED <<procVars, mainPc, exitCode, server_sock, log, nconn, nacc,
                   envVars>>

\* finally: dst.close()
CloseDst(i, t) ==
    /\ thr[i][t].pc = "close_dst"
    /\ FinallyClose(i, t, Dst(t), "done")
    /\ UNCHANGED <<procVars, mainPc, exitCode, server_sock, log, nconn, nacc,
                   envVars>>

\* The steps of thread t of connection i that need nothing new from the
\* network: whatever recv or sendall can do now, and the closes.
Progress(i, t) ==
    \/ RecvData(i, t) \/ RecvEof(i, t) \/ RecvClosed(i, t)
    \/ SendOk(i, t) \/ SendError(i, t) \/ SendClosed(i, t)
    \/ CloseSrc(i, t) \/ CloseDst(i, t)

\* ------------------------------------------------------------- specification
Next ==
    \/ CheckArgs
    \/ ParseArgs
    \/ GetLocalCid
    \/ ServerSocket
    \/ BindOk
    \/ BindFail
    \/ ClientConnect
    \/ AcceptOk
    \/ AcceptErr
    \/ VsockSocketOk
    \/ VsockSocketFail
    \/ ConnectOk
    \/ ConnectFail
    \/ \E t \in Threads : StartOk(t)
    \/ \E t \in Threads : StartFail(t)
    \/ \E i \in Sess, s \in Sides, b \in Bytes : EndpointWrite(i, s, b)
    \/ \E i \in Sess, s \in Sides : EndpointEof(i, s)
    \/ \E i \in Sess, t \in Threads : RecvData(i, t)
    \/ \E i \in Sess, t \in Threads : RecvEof(i, t)
    \/ \E i \in Sess, t \in Threads : RecvError(i, t)
    \/ \E i \in Sess, t \in Threads : RecvClosed(i, t)
    \/ \E i \in Sess, t \in Threads : SendOk(i, t)
    \/ \E i \in Sess, t \in Threads : SendError(i, t)
    \/ \E i \in Sess, t \in Threads : SendClosed(i, t)
    \/ \E i \in Sess, t \in Threads : CloseSrc(i, t)
    \/ \E i \in Sess, t \in Threads : CloseDst(i, t)

Spec == Init /\ [][Next]_vars

\* Python runs every started thread: a thread that can take a step takes one.
\* Nothing makes the network deliver, fail or close.
FairSpec ==
    Spec /\ \A i \in Sess : \A t \in Threads : WF_vars(Progress(i, t))

\* ------------------------------------------------------------- sessions
\* Both copy threads of connection i were started: the session is Active
\* or was.
Active(i) == thr[i]["t1"].pc # "unstarted" /\ thr[i]["t2"].pc # "unstarted"

\* Both copy threads of connection i have returned.
SessionClosed(i) == thr[i]["t1"].pc = "done" /\ thr[i]["t2"].pc = "done"

\* Thread t of connection i has left its copy loop.
LeftLoop(i, t) == thr[i][t].pc \in {"close_src", "close_dst", "done"}

\* No thread of connection i can take a step until an endpoint or the
\* network does something.
Quiet(i) == \A t \in Threads : ~ENABLED Progress(i, t)

\* The dial of connection i failed: connect() raised on the socket created
\* for it, and the accept loop has gone on.
DialFailed(i) ==
    /\ socks[i].vsock_sock = "created"
    /\ i < nacc \/ (i = nacc /\ mainPc # "connect")

\* ------------------------------------------------------------- claims

\* C1: in every session that reached Active, the bytes the client wrote
\* are the bytes the enclave peer has received, in order, nothing missing
\* and nothing twice. Stated for the end of the session: once both copy
\* threads have returned, and the network failed no recv or sendall, the
\* peer has received exactly what the client sent.
C1_ClientBytesReachPeer ==
    \A i \in Sess :
        (SessionClosed(i) /\ ~ioerr[i])
            => rcvd[i].vsock_sock = sent[i].client_sock

\* C2: in every session that reached Active, the bytes the enclave peer
\* wrote are the bytes the client has received, also when the client had
\* finished sending before they were relayed. Stated for the end of the
\* session, as C1.
C2_PeerBytesReachClient ==
    \A i \in Sess :
        (SessionClosed(i) /\ ~ioerr[i])
            => rcvd[i].client_sock = sent[i].vsock_sock

\* C3: when one side of an Active session has closed, the relay closes the
\* connection of the other side. Stated for the relay at rest: when no
\* thread of the session can take a step and an endpoint has closed, the
\* relay holds the connection of the other endpoint open no longer.
C3_CloseReachesOtherSide ==
    \A i \in Sess :
        (Active(i) /\ Quiet(i))
            => /\ eof[i].client_sock => ~ConnUp(i, "vsock_sock")
               /\ eof[i].vsock_sock => ~ConnUp(i, "client_sock")

\* C4: while the dial of an accepted connection is pending, the listener
\* can accept the next client that is waiting.
C4_AcceptDuringDial ==
    (mainPc = "connect" /\ server_sock = "listening" /\ nacc < nconn)
        => ENABLED AcceptOk

\* C5: when bind or listen fails, the error is reported, the process exits
\* with a status that is not zero, the listener socket is closed, and no
\* connection was accepted and no copy thread started.
C5_BindFailureIsFatal ==
    (<<"Server error", 0, "main">> \in log)
        => /\ mainPc = "exited"
           /\ exitCode # 0
           /\ exitCode # NoExit
           /\ server_sock = "closed"
           /\ nacc = 0
           /\ \A i \in Sess : \A t \in Threads : thr[i][t].pc = "unstarted"

\* C6: when the dial of an accepted connection has failed, its client
\* socket is closed, neither copy thread was started for it, and the
\* listener is open with the accept loop running.
C6_DialFailureIsContained ==
    \A i \in Sess :
        DialFailed(i)
            => /\ socks[i].client_sock = "closed"
               /\ \A t \in Threads : thr[i][t].pc = "unstarted"
               /\ server_sock = "listening"
               /\ mainPc \in LoopPcs
               /\ exitCode = NoExit

\* A dial failed for the first connection and the second one was accepted
\* after it.
C6_Witness ==
    /\ DialFailed(1)
    /\ nacc = 2
    /\ socks[2].client_sock = "connected"

\* C7: once a copy thread of any session has left its loop (end of stream,
\* failed recv, failed sendall), and whatever the session does after that,
\* the listener socket is open and the accept loop is running.
C7_ListenerSurvivesSessions ==
    \A i \in Sess :
        (\E t \in Threads : LeftLoop(i, t))
            => /\ server_sock = "listening"
               /\ mainPc \in LoopPcs
               /\ exitCode = NoExit

\* A session has ended after the network failed it, and the accept loop
\* can take the next client.
C7_Witness ==
    /\ SessionClosed(1)
    /\ ioerr[1]
    /\ <<"Forward error", 1, "t1">> \in log
    /\ ENABLED AcceptOk

\* C8: no exception escapes a copy thread, a session whose two threads
\* have returned has both sockets closed, and a closed socket stays closed,
\* whichever way the closes, the recvs and the sendalls of the two threads
\* interleave.
C8_CloseIsSafe ==
    /\ [](uncaught = {})
    /\ [](\A i \in Sess :
            SessionClosed(i)
                => socks[i].client_sock = "closed" /\ socks[i].vsock_sock = "closed")
    /\ [][\A i \in Sess : \A s \in Sides :
            socks[i][s] = "closed" => socks'[i][s] = "closed"]_vars

\* Both threads of a session have closed the two sockets, and one of the
\* threads had run into a socket its sibling had closed (the network failed
\* nothing).
C8_Witness ==
    \E i \in Sess :
        /\ SessionClosed(i)
        /\ ~ioerr[i]
        /\ \E t \in Threads : <<"Forward error", i, t>> \in log
        /\ socks[i].client_sock = "closed"
        /\ socks[i].vsock_sock = "closed"

\* C9: after accept has raised, the error is on the log, the listener
\* socket is open and the accept loop is running.
C9_AcceptErrorContinues ==
    (<<"Accept error", 0, "main">> \in log)
        => /\ server_sock = "listening"
           /\ mainPc \in LoopPcs
           /\ exitCode = NoExit

\* accept has raised before any connection was accepted, and the loop can
\* take the client that is waiting.
C9_Witness ==
    /\ <<"Accept error", 0, "main">> \in log
    /\ nacc = 0
    /\ ENABLED AcceptOk

\* The command line is not a valid one: not three arguments, an argument
\* that is no integer, or a local port outside 1..65535.
InvalidArgs ==
    \/ Len(argv) # 3
    \/ \E k \in 1..3 : ~PyInt(argv[k]).ok
    \/ PyInt(argv[1]).val < 1
    \/ PyInt(argv[1]).val > 65535

\* C10: with other than three arguments the process prints the usage and
\* exits with status 1; with any invalid command line it accepts no
\* connection and its exit status is not zero.
C10_InvalidArgsAreFatal ==
    /\ (Len(argv) # 3 /\ mainPc = "exited")
          => (<<"Usage", 0, "main">> \in log /\ exitCode = 1)
    /\ InvalidArgs => nacc = 0
    /\ (InvalidArgs /\ mainPc = "exited") => exitCode \notin {0, NoExit}

\* The main thread has come to forward_tcp_to_vsock: it is about to bind, in
\* the accept loop, or has left through bind's own failure.
ReachedBind ==
    \/ mainPc = "bind"
    \/ mainPc \in LoopPcs
    \/ /\ mainPc = "exited"
       /\ \/ <<"Server error", 0, "main">> \in log
          \/ <<"Traceback: OSError", 0, "main">> \in log

\* C11: a failure of the query for the local identifier never stops the
\* start: nothing is raised out of get_local_cid, and once the query has
\* failed the value returned is the fallback 2 and the main thread has gone
\* on to bind the listener.
C11_CidFailureFallsBack ==
    /\ <<"Traceback: get_local_cid", 0, "main">> \notin log
    /\ (<<"Error getting local CID", 0, "main">> \in log)
          => (local_cid = 2 /\ ReachedBind)

\* The query failed and the listener is listening.
C11_Witness ==
    /\ <<"Error getting local CID", 0, "main">> \in log
    /\ local_cid = 2
    /\ server_sock = "listening"

\* C12: a session of which one thread has left its copy loop comes to have
\* both threads returned. Stated for the relay at rest: when no thread of
\* such a session can take a step, both have returned; none is left inside
\* recv or sendall.
C12_ClosingReachesClosed ==
    \A i \in Sess :
        (Active(i) /\ Quiet(i) /\ \E t \in Threads : LeftLoop(i, t))
            => SessionClosed(i)

\* How far thread code has come: the loop (recv and sendall alternate), the
\* first close, the second close, the return.
PcRank(pc) ==
    CASE pc = "unstarted" -> 0
      [] pc \in {"recv", "sendall"} -> 1
      [] pc = "close_src" -> 2
      [] pc = "close_dst" -> 3
      [] pc = "done" -> 4

\* The state of the session of connection i: 0 no session, 1 Active (both
\* threads in their loops), 2 Closing (a thread has left its loop), 3 Closed
\* (both threads have returned).
SessionRank(i) ==
    IF ~Active(i) THEN 0
    ELSE IF SessionClosed(i) THEN 3
    ELSE IF \E t \in Threads : LeftLoop(i, t) THEN 2
    ELSE 1

\* C13: no step takes a session backwards (Active, Closing, Closed in that
\* order), no step takes a thread back to an earlier place of forward (a
\* thread that has left its loop never reads again, one that has returned
\* never runs again), and no step reopens a closed socket.
C13_StateMovesForward ==
    [][\A i \in Sess :
         /\ SessionRank(i)' >= SessionRank(i)
         /\ \A t \in Threads : PcRank(thr'[i][t].pc) >= PcRank(thr[i][t].pc)
         /\ \A s \in Sides : socks[i][s] = "closed" => socks'[i][s] = "closed"]_vars

\* A session is Closing: one thread has returned, both sockets are closed,
\* and the sibling is still in its loop.
C13_Witness ==
    \E i \in Sess :
        /\ Active(i)
        /\ thr[i]["t1"].pc = "done"
        /\ thr[i]["t2"].pc \in {"recv", "sendall"}
        /\ socks[i].client_sock = "closed"
        /\ socks[i].vsock_sock = "closed"

IsPrefix(a, b) == Len(a) <= Len(b) /\ a = SubSeq(b, 1, Len(a))

\* The bytes thread t of connection i has read so far: what its source
\* endpoint wrote, less what still waits to be read.
Consumed(i, t) ==
    SubSeq(sent[i][Src(t)], 1, Len(sent[i][Src(t)]) - Len(inq[i][Src(t)]))

\* C14: what a copy thread has written to its destination is a prefix of
\* what it has read, so nothing is written twice; and the two differ by
\* exactly the chunk the thread holds for the write it is about to make,
\* unless that thread has reported an error on the log.
C14_NoSilentDrop ==
    \A i \in Sess : \A t \in Threads :
        /\ IsPrefix(rcvd[i][Dst(t)], Consumed(i, t))
        /\ \/ rcvd[i][Dst(t)] \o thr[i][t].data = Consumed(i, t)
           \/ <<"Forward error", i, t>> \in log

\* A thread has read a chunk of two bytes, the write failed after one of
\* them, and the thread has reported the error and returned.
C14_Witness ==
    \E i \in Sess : \E t \in Threads :
        /\ Len(Consumed(i, t)) = 2
        /\ Len(rcvd[i][Dst(t)]) = 1
        /\ <<"Forward error", i, t>> \in log
        /\ thr[i][t].pc = "done"

\* Neither endpoint of connection i has finished sending and the network
\* has failed nothing of it.
Undisturbed(i) == ~eof[i].client_sock /\ ~eof[i].vsock_sock /\ ~ioerr[i]

\* C15: a session whose endpoints have not closed and whose connections
\* have not failed has both threads in their copy loops and both sockets
\* open, whatever the other sessions have done.
C15_NoTeardownUnprompted ==
    \A i \in Sess :
        (Active(i) /\ Undisturbed(i))
            => /\ \A t \in Threads : thr[i][t].pc \in {"recv", "sendall"}
               /\ socks[i].client_sock = "connected"
               /\ socks[i].vsock_sock = "connected"

\* One session has been torn down and another, undisturbed, is still up
\* with both threads waiting in recv.
C15_Witness ==
    \E i \in Sess : \E j \in Sess \ {i} :
        /\ SessionClosed(j)
        /\ Active(i) /\ Undisturbed(i)
        /\ \A t \in Threads : thr[i][t].pc = "recv"
        /\ socks[i].client_sock = "connected"
        /\ socks[i].vsock_sock = "connected"

\* Everything of connection j: its two sockets, its two threads, the bytes
\* waiting and delivered on either side.
SessState(j) ==
    <<socks[j], thr[j], held[j], inq[j], eof[j], sent[j], rcvd[j], ioerr[j]>>

\* C16: a step that moves a thread of one connection changes nothing of any
\* other connection, and what has been written to a socket of a connection
\* is a prefix of what was read from the other socket of that connection.
C16_SessionsIsolated ==
    /\ [][\A i \in Sess :
            thr'[i] # thr[i]
                => \A j \in Sess \ {i} : SessState(j)' = SessState(j)]_vars
    /\ [](\A i \in Sess : \A t \in Threads :
            IsPrefix(rcvd[i][Dst(t)], sent[i][Src(t)]))

\* Two sessions are up side by side; a byte has gone through one of them and
\* nothing has arrived in the other.
C16_Witness ==
    \E i \in Sess : \E j \in Sess \ {i} :
        /\ Active(i) /\ Active(j)
        /\ ~SessionClosed(i) /\ ~SessionClosed(j)
        /\ Len(rcvd[i].vsock_sock) = 1
        /\ rcvd[j].vsock_sock = <<>> /\ rcvd[j].client_sock = <<>>

\* Thread t of connection i was started.
Started(i, t) == thr[i][t].pc # "unstarted"

\* Socket s of connection i is or was a connection: accept returned it, or
\* connect returned on it.
WasConnected(i, s) == socks[i][s] \in {"connected", "closed"}

\* C17: the threads of connection i run on the client socket accept
\* returned for i and on the socket dialed for i, and only when that dial
\* succeeded; a socket is dialed only for a client that was accepted; the
\* two threads copy in opposite directions between the two sockets, and the
\* second is started only after the first.
C17_SessionPairsItsOwn ==
    /\ Src("t1") = Dst("t2") /\ Src("t2") = Dst("t1") /\ Src("t1") # Src("t2")
    /\ \A i \in Sess :
        /\ (\E t \in Threads : Started(i, t))
              => /\ i <= nacc
                 /\ <<"Connection from", i, "main">> \in log
                 /\ <<"Connected to VSOCK", i, "main">> \in log
                 /\ WasConnected(i, "client_sock")
                 /\ WasConnected(i, "vsock_sock")
        /\ Started(i, "t2") => Started(i, "t1")
        /\ socks[i].vsock_sock # "none"
              => (i <= nacc /\ WasConnected(i, "client_sock"))
        /\ socks[i].client_sock # "none" => i <= nacc

\* Two sessions are up, each with its own two connected sockets and its own
\* two threads.
C17_Witness ==
    \E i \in Sess : \E j \in Sess \ {i} :
        /\ Active(i) /\ Active(j)
        /\ \A s \in Sides : socks[i][s] = "connected" /\ socks[j][s] = "connected"
        /\ \A t \in Threads : thr[i][t].pc = "recv" /\ thr[j][t].pc = "recv"

\* The main thread is working on connection i: creating the socket to dial,
\* dialing, or starting the threads.
Dialing(i) ==
    nacc = i /\ mainPc \in {"socket", "connect", "start_t1", "start_t2"}

\* C18: once the failure of the dial (or of a start) of connection i has
\* been reported, the main thread never works on connection i again, and a
\* failed dial stays failed; a thread that reports an error has left its
\* loop with no chunk in hand; and a thread that has left its loop writes
\* nothing more.
C18_NothingRetried ==
    /\ [](\A i \in Sess :
            <<"VSOCK connect error", i, "main">> \in log => ~Dialing(i))
    /\ [][\A i \in Sess : DialFailed(i) => DialFailed(i)']_vars
    /\ [][\A i \in Sess : \A t \in Threads :
            (<<"Forward error", i, t>> \notin log
                /\ <<"Forward error", i, t>> \in log')
              => (LeftLoop(i, t)' /\ thr'[i][t].data = <<>>)]_vars
    /\ [][\A i \in Sess : \A t \in Threads :
            LeftLoop(i, t) => rcvd'[i][Dst(t)] = rcvd[i][Dst(t)]]_vars

\* A write failed on the network, and the session has ended with the bytes
\* of that chunk that were not written still missing at the destination.
C18_Witness ==
    \E i \in Sess : \E t \in Threads :
        /\ ioerr[i]
        /\ <<"Forward error", i, t>> \in log
        /\ SessionClosed(i)
        /\ Len(rcvd[i][Dst(t)]) < Len(Consumed(i, t))

\* The main thread has finished with connection i and is back at accept, or
\* further.
AttemptEnded(i) == i < nacc \/ (i = nacc /\ mainPc = "accept")

\* C19: when the attempt for connection i has ended with the failure of the
\* dial or of a start reported, no session has come of it and no thread of
\* it is running, then the relay has closed every socket it opened for the
\* attempt: the client socket and the socket created for the dial.
C19_NoSocketLeaked ==
    \A i \in Sess :
        (/\ AttemptEnded(i)
         /\ <<"VSOCK connect error", i, "main">> \in log
         /\ ~Active(i)
         /\ \A t \in Threads : thr[i][t].pc \in {"unstarted", "done"})
            => \A s \in Sides : socks[i][s] = "closed"
====
